---- MODULE Spec2Model ----
(***************************************************************************)
(* Bring-up, relocation, boot-info and trap-dispatch layer of Osiris.      *)
(*                                                                         *)
(* Two bring-up entry points exist in the tree and both are modelled:      *)
(*   "common" : src/machine/arm/common/entry.c   (_main(void))             *)
(*   "cm4"    : src/machine/cortex-m4/entry.c    (_main(uint32_t offset)), *)
(*              whose main() is src/bootstrap.c                            *)
(* Memory is a byte array; words are little-endian 32-bit values.          *)
(***************************************************************************)
EXTENDS Integers, Sequences, FiniteSets, TLC

VARIABLES
    variant,      \* which _main runs: "common" or "cm4"
    pc,           \* position of _main
    sym,          \* linker symbols (addresses)
    offset,       \* load delta: actual load address - link address
    n_ctors,      \* number of entries of [__init_array_start, __init_array_end)
    mem,          \* byte memory (flash and RAM)
    mem0,         \* memory contents at reset
    scb,          \* system control block registers, by address
    boot_info,    \* the BootInfo instance
    kernel_arg,   \* the BootInfo the kernel entry point received
    log,          \* steps executed so far, each with the addresses it wrote
    svc_state,    \* trap dispatcher: "Idle" or "Dispatching"
    code,         \* instruction memory holding the SVC instructions
    svc_args,     \* the exception frame (8 word slots)
    frame_in,     \* the frame as stacked at exception entry
    svc_number,   \* syscall number decoded by the dispatcher
    calls,        \* handler invocations of the dispatch in flight
    icsr,         \* pending flags of the interrupt control and state register
    pendsv_state, \* switch handler (PendSV): "Idle" or "Switching"
    requests,     \* reschedule() calls since the switch handler last started
    bursts,       \* reschedule() calls that found the PendSV flag clear
    switches,     \* times the switch handler has started
    answered,     \* reschedule() calls the last switch answered
    last_resched, \* stores and barriers of the latest reschedule() call
    lib_pc,       \* library call: "call" before it runs, "done" after, "none"
    lib_call,     \* the function called and its arguments
    lib_mem,      \* byte memory the library call works on
    lib_mem0,     \* that memory before the call
    lib_map,      \* MemMapEntry slots: the caller's buffer and what follows it
    lib_ret       \* the value returned (empty until the call has returned)

bootvars == <<variant, pc, sym, offset, n_ctors, mem, mem0, scb, boot_info,
              kernel_arg, log>>
svcvars == <<svc_state, code, svc_args, frame_in, svc_number, calls>>
schedvars == <<icsr, pendsv_state, requests, bursts, switches, answered,
               last_resched>>
libvars == <<lib_pc, lib_call, lib_mem, lib_mem0, lib_map, lib_ret>>
vars == <<variant, pc, sym, offset, n_ctors, mem, mem0, scb, boot_info,
          kernel_arg, log, svc_state, code, svc_args, frame_in,
          svc_number, calls, icsr, pendsv_state, requests, bursts, switches,
          answered, last_resched, lib_pc, lib_call, lib_mem, lib_mem0,
          lib_map, lib_ret>>

(***************************************************************************)
(* Bounds of the model                                                     *)
(***************************************************************************)
MaxBssLen == 2
MaxDataLen == 2
MaxGotWords == 2
MaxRel == 2
MaxIvtSlots == 3
MaxCtors == 2
MaxRequests == 2      \* reschedule() calls between two switches
MaxSwitches == 2      \* switches after which no further one is requested
MaxPtr == 4           \* highest address a library call is handed
MaxLen == 3           \* longest library call
MaxMapSize == 4       \* largest max_size handed to get_mem_map

(***************************************************************************)
(* Program constants                                                       *)
(***************************************************************************)
R_ARM_RELATIVE == 23
SCB_ICSR_PENDSVSET == 28
BOOT_INFO_MAGIC == 221566477
\* 0xE000ED08, as a little-endian word
VTOR_ADDR == <<8, 237, 0, 224>>
MMAP_LEN == 8
MEM_MAP_CAPACITY == 32
SIZEOF_MemMapEntry == 24

Variants == {"common", "cm4"}

(***************************************************************************)
(* 32-bit words are kept as their four bytes, least significant first, so  *)
(* that arithmetic keeps its width: a word is <<b0, b1, b2, b3>>.          *)
(***************************************************************************)
\* the word of a number below 2^31
W(n) == <<n % 256, (n \div 256) % 256, (n \div 65536) % 256,
          (n \div 16777216) % 256>>

ByteOf(w, i) == w[i + 1]

ReadWord(m, a) == <<m[a], m[a + 1], m[a + 2], m[a + 3]>>

WriteWord(m, a, w) ==
    [m EXCEPT ![a] = w[1], ![a + 1] = w[2], ![a + 2] = w[3], ![a + 3] = w[4]]

\* uint32_t addition: ripple carry over the bytes, the carry out of the
\* top byte is lost
Add32(a, b) ==
    LET s0 == a[1] + b[1]
        s1 == a[2] + b[2] + (s0 \div 256)
        s2 == a[3] + b[3] + (s1 \div 256)
        s3 == a[4] + b[4] + (s2 \div 256)
    IN  <<s0 % 256, s1 % 256, s2 % 256, s3 % 256>>

\* the memory cell a pointer value designates (the modelled address space
\* lies below 2^16)
AddrOf(w) == w[1] + 256 * w[2]

(***************************************************************************)
(* nlib: memcpy and memset, as the byte loops of mem.c                     *)
(***************************************************************************)
RECURSIVE memcpy_loop(_, _, _, _)
memcpy_loop(m, dst, src, len) ==
    IF len = 0 THEN m
    ELSE memcpy_loop([m EXCEPT ![dst] = m[src]], dst + 1, src + 1, len - 1)

memcpy(m, dst0, src0, len) ==
    [mem |-> memcpy_loop(m, dst0, src0, len), ret |-> dst0]

RECURSIVE memset_loop(_, _, _, _)
memset_loop(m, dst, c, len) ==
    IF len = 0 THEN m
    ELSE memset_loop([m EXCEPT ![dst] = c % 256], dst + 1, c, len - 1)

\* variant: the fill stops one byte short
memset_short(m, dst0, c, len) ==
    [mem |-> memset_loop(m, dst0, c, len - 1), ret |-> dst0 + len]

\* memset returns the advanced pointer dst, not dst0
memset(m, dst0, c, len) ==
    [mem |-> memset_loop(m, dst0, c, len), ret |-> dst0 + len]

\* the descending loop: *--dst = *--src
RECURSIVE memmove_down(_, _, _, _)
memmove_down(m, dst, src, len) ==
    IF len = 0 THEN m
    ELSE memmove_down([m EXCEPT ![dst - 1] = m[src - 1]], dst - 1, src - 1,
                      len - 1)

\* variant: the bytes are always copied in ascending order
memmove_forward(m, dst0, src0, len) ==
    [mem |-> memcpy_loop(m, dst0, src0, len), ret |-> dst0]

\* memmove: descending when dst lies inside [src, src + len), else ascending
memmove(m, dst0, src0, len) ==
    IF src0 < dst0 /\ dst0 < src0 + len
    THEN [mem |-> memmove_down(m, dst0 + len, src0 + len, len), ret |-> dst0]
    ELSE [mem |-> memcpy_loop(m, dst0, src0, len), ret |-> dst0]

\* addresses a byte loop of length len starting at dst0 stores to
Span(dst0, len) == dst0 .. (dst0 + len - 1)

(***************************************************************************)
(* Linker symbols.  RAM holds, in this order, the BSS span, the data span, *)
(* the GOT, the relocation records and the vector table, each separated    *)
(* from its neighbour by a byte that belongs to no span; the flash image   *)
(* follows, with room before and after it for a displaced load.            *)
(***************************************************************************)
MaxShift == 4

Layout(bl, dl, gw, nr, iv) ==
    LET bss_start == 1
        data_start == bss_start + bl + 1
        got_start == data_start + dl + 1
        rel_dyn_start == got_start + 4 * gw
        ivt_start == rel_dyn_start + 8 * nr + 1
        ram_end == ivt_start + 4 * iv + 1
        data == ram_end + MaxShift
        got_load == data + dl
        rel_dyn_load == got_load + 4 * gw
        ivt == rel_dyn_load + 8 * nr
    IN  [bss_start |-> bss_start, bss_end |-> bss_start + bl,
         data_start |-> data_start, data_end |-> data_start + dl,
         data |-> data,
         got_start |-> got_start, got_end |-> got_start + 4 * gw,
         got_load |-> got_load,
         rel_dyn_start |-> rel_dyn_start,
         rel_dyn_end |-> rel_dyn_start + 8 * nr,
         rel_dyn_load |-> rel_dyn_load,
         ivt_start |-> ivt_start, ivt_end |-> ivt_start + 4 * iv,
         ivt |-> ivt,
         ram_end |-> ram_end,
         top |-> ivt + 4 * iv + MaxShift]

\* the load delta as a signed quantity (its magnitude is below 2^15)
Signed(off) == IF off[4] >= 128 THEN AddrOf(off) - 65536 ELSE AddrOf(off)

(***************************************************************************)
(* Inputs: contents of RAM at reset and contents of the flash image        *)
(***************************************************************************)
FillPatterns == {"ff", "mix"}
Fill(fill, a) == IF fill = "ff" THEN 255 ELSE (7 * a + 3) % 256
GarbageWord(fill) == IF fill = "ff" THEN 2139062143 ELSE 1515870810

\* load deltas 0, +4 and -4
Offsets == {W(0), W(4), <<252, 255, 255, 255>>}
\* 0x20000010 and 0xFFFFFFFF
GotBases == {W(536870928), <<255, 255, 255, 255>>}
\* 0x08000101 and 0xFFFFFFFE
IvtBases == {W(134217985), <<254, 255, 255, 255>>}
\* r_info values: kind 23 without and with a symbol index (0x317), and
\* kind 2 with 23 in its second byte (0x1702)
InfoVals == {W(R_ARM_RELATIVE), W(791), W(5890)}

DataByte(i) == i + 1
GotWord(gbase, i) == Add32(gbase, W(257 * i))
IvtWord(ibase, i) == Add32(ibase, W(4 * i))
RelOffset(s, gw, j) == W(s.got_start + 4 * (j % gw))

\* byte of the image at link address l
ImageByte(s, l, gw, gbase, rel, ibase) ==
    IF l >= s.data /\ l < s.got_load THEN DataByte(l - s.data)
    ELSE IF l >= s.got_load /\ l < s.rel_dyn_load
         THEN ByteOf(GotWord(gbase, (l - s.got_load) \div 4), (l - s.got_load) % 4)
    ELSE IF l >= s.rel_dyn_load /\ l < s.ivt
         THEN LET j == (l - s.rel_dyn_load) \div 8
                  b == (l - s.rel_dyn_load) % 8
              IN  IF b < 4 THEN ByteOf(RelOffset(s, gw, j), b)
                  ELSE ByteOf(rel[j + 1], b - 4)
    ELSE IF l >= s.ivt /\ l < s.top - MaxShift
         THEN ByteOf(IvtWord(ibase, (l - s.ivt) \div 4), (l - s.ivt) % 4)
    ELSE 238

\* memory at reset: RAM holds arbitrary prior contents, the image sits in
\* flash displaced by shift bytes from its link address
ResetMem(s, shift, fill, gw, gbase, rel, ibase) ==
    [a \in 0 .. (s.top - 1) |->
        IF a < s.ram_end THEN Fill(fill, a)
        ELSE ImageByte(s, a - shift, gw, gbase, rel, ibase)]

(***************************************************************************)
(* BootInfo                                                                *)
(***************************************************************************)
MemMapEntry(size, addr, length, ty) ==
    [size |-> size, addr |-> addr, length |-> length, ty |-> ty]

\* an object never assigned: every field holds what the stack held
GarbageBootInfo(fill, cap) ==
    [magic |-> GarbageWord(fill), version |-> GarbageWord(fill),
     implementer |-> "garbage", variant |-> "garbage",
     mmap |-> [i \in 0 .. (cap - 1) |->
                  MemMapEntry(GarbageWord(fill), GarbageWord(fill),
                              GarbageWord(fill), GarbageWord(fill))],
     mmap_len |-> GarbageWord(fill)]

\* memset(&boot_info, 0, sizeof(BootInfo))
ZeroBootInfo(cap) ==
    [magic |-> 0, version |-> 0, implementer |-> "NULL", variant |-> "NULL",
     mmap |-> [i \in 0 .. (cap - 1) |-> MemMapEntry(0, 0, 0, 0)],
     mmap_len |-> 0]

\* startup/mcu/stm32l4r5xx/jumper.c
init_boot_info(bi) ==
    [bi EXCEPT
        !.implementer = "ARM",
        !.variant = "Cortex-M4",
        !.mmap_len = 3,
        !.mmap[0] = MemMapEntry(SIZEOF_MemMapEntry, 536870912, 196608, 1),
        !.mmap[1] = MemMapEntry(SIZEOF_MemMapEntry, 537067520, 65536, 1),
        !.mmap[2] = MemMapEntry(SIZEOF_MemMapEntry, 537133056, 393216, 1)]

\* board/stm32-nucleo-l4r5zi/jumper.c: max_size is not consulted
get_mem_map(mem_map, max_size) ==
    [mem_map |-> [mem_map EXCEPT
        ![0] = MemMapEntry(SIZEOF_MemMapEntry, 536870912, 196608, 1),
        ![1] = MemMapEntry(SIZEOF_MemMapEntry, 537067520, 1048576, 1),
        ![2] = MemMapEntry(SIZEOF_MemMapEntry, 537133056, 393216, 1)],
     ret |-> 3]

Capacity(v) == IF v = "common" THEN MMAP_LEN ELSE MEM_MAP_CAPACITY

(***************************************************************************)
(* Trap dispatcher at rest                                                 *)
(***************************************************************************)
NoFrame == [i \in 0 .. 7 |-> 0]

\* Thumb "svc #imm" is the halfword 0xDF00 + imm: imm at the lower address,
\* 0xDF (223) above it.  The text holds one SVC per immediate.
SvcImms == <<0, 1, 2, 200>>
ProgramText ==
    [a \in 0 .. (2 * Len(SvcImms) - 1) |->
        IF a % 2 = 0 THEN SvcImms[(a \div 2) + 1] ELSE 223]

SvcAtRest ==
    /\ svc_state = "Idle"
    /\ code = ProgramText
    /\ svc_args = NoFrame
    /\ frame_in = NoFrame
    /\ svc_number = 0
    /\ calls = <<>>

(***************************************************************************)
(* Reschedule trigger.  ICSR is kept as its three pending flags; a value   *)
(* read from or written to it is the set of its bit positions that are 1.  *)
(* Bits 31 (NMIPENDSET), 28 (PENDSVSET) and 26 (PENDSTSET) read as the     *)
(* pending state and set it when written as 1; bits 27 (PENDSVCLR) and 25  *)
(* (PENDSTCLR) read as 0 and clear it when written as 1; a 0 written to    *)
(* any of them changes nothing.                                            *)
(***************************************************************************)
IcsrRead(r) ==
    {b \in {31, 28, 26} : \/ b = 31 /\ r.nmipend
                          \/ b = 28 /\ r.pendsv
                          \/ b = 26 /\ r.pendst}

IcsrWrite(r, v) ==
    [nmipend |-> r.nmipend \/ 31 \in v,
     pendsv  |-> IF 27 \in v THEN FALSE ELSE r.pendsv \/ 28 \in v,
     pendst  |-> IF 25 \in v THEN FALSE ELSE r.pendst \/ 26 \in v]

Op(op, val) == [op |-> op, val |-> val]

\* variant: the request bit is flipped, a flag found set is cleared
reschedule_toggle(r) ==
    LET v == IF r.pendsv THEN {27} ELSE {SCB_ICSR_PENDSVSET}
    IN  [icsr |-> IcsrWrite(r, v),
         effects |-> <<Op("str", v), Op("isb", {}), Op("dsb", {})>>]

\* variant: every set and clear bit from 25 up to 28 is written as 1
reschedule_clr(r) ==
    LET v == {25, 26, 27, SCB_ICSR_PENDSVSET}
    IN  [icsr |-> IcsrWrite(r, v \ {27}),
         effects |-> <<Op("str", v), Op("isb", {}), Op("dsb", {})>>]

\* SCB->ICSR |= SCB_ICSR_PENDSVSET_Msk; __ISB(); __DSB();
reschedule(r) ==
    LET v == IcsrRead(r) \cup {SCB_ICSR_PENDSVSET}
    IN  [icsr |-> IcsrWrite(r, v),
         effects |-> <<Op("str", v), Op("isb", {}), Op("dsb", {})>>]

\* variant: the supervisor call is given the lowest priority and the switch
\* handler the highest
ExcPriority_inverted == [SVCall |-> 15, PendSV |-> 0, SysTick |-> 15]

\* HAL_MspInit: PendSV and SysTick get priority 15; the priority of the
\* supervisor call is never set and keeps its reset value 0
ExcPriority == [SVCall |-> 0, PendSV |-> 15, SysTick |-> 15]

\* thread-mode code runs: no handler is active and no switch is pending
ThreadRuns ==
    /\ svc_state = "Idle"
    /\ pendsv_state = "Idle"
    /\ ~icsr.pendsv

\* ICSR reads as zero out of reset and no switch has been requested
SchedAtRest ==
    /\ icsr = [nmipend |-> FALSE, pendsv |-> FALSE, pendst |-> FALSE]
    /\ pendsv_state = "Idle"
    /\ requests = 0
    /\ bursts = 0
    /\ switches = 0
    /\ answered = 0
    /\ last_resched = <<>>

(***************************************************************************)
(* Library calls.  The byte memory has one cell below the lowest pointer   *)
(* and one above the longest range; the MemMapEntry slots are the buffer   *)
(* handed to get_mem_map (its first max_size slots) and the storage that   *)
(* follows it.                                                             *)
(***************************************************************************)
LibAddrs == 0 .. (MaxPtr + MaxLen)
LibPtrs == 1 .. MaxPtr
MapSlots == 0 .. (IF MaxMapSize > 3 THEN MaxMapSize - 1 ELSE 2)

LibCall(fn, dst, src, len, c, max_size) ==
    [fn |-> fn, dst |-> dst, src |-> src, len |-> len, c |-> c,
     max_size |-> max_size]

NoCall == LibCall("none", 0, 0, 0, 0, 0)

\* memory in which every cell differs from its neighbours
LibMemory == [a \in LibAddrs |-> 16 + a]

\* slots nobody has assigned
LibSlots == [i \in MapSlots |-> MemMapEntry(0, 0, 0, 0)]

LibAtRest ==
    /\ lib_pc = "none"
    /\ lib_call = NoCall
    /\ lib_mem = LibMemory
    /\ lib_mem0 = LibMemory
    /\ lib_map = LibSlots
    /\ lib_ret = {}

(***************************************************************************)
(* State at reset                                                          *)
(***************************************************************************)
Ev(step, wr, arg) == [step |-> step, wr |-> wr, arg |-> arg]

Init ==
    /\ \E v \in Variants, bl \in 0 .. MaxBssLen, dl \in 0 .. MaxDataLen,
          fill \in FillPatterns, nc \in 0 .. MaxCtors, off \in Offsets,
          gw \in 0 .. MaxGotWords, nr \in 0 .. MaxRel,
          iv \in 0 .. MaxIvtSlots, gbase \in GotBases, ibase \in IvtBases :
        /\ v = "common" => /\ iv = 0
                           /\ ibase = W(134217985)
                           /\ off[4] < 128
                           /\ (gw = 0 => nr = 0 /\ gbase = W(536870928))
        /\ v = "cm4" => /\ gw = 0
                        /\ nr = 0
                        /\ gbase = W(536870928)
                        /\ (iv = 0 => ibase = W(134217985))
        /\ \E rel \in [1 .. nr -> InfoVals] :
            LET s == Layout(bl, dl, gw, nr, iv)
                \* only the cortex-m4 entry point reads the image displaced
                shift == IF v = "cm4" THEN Signed(off) ELSE 0
                m == ResetMem(s, shift, fill, gw, gbase, rel, ibase)
            IN  /\ variant = v
                /\ sym = s
                /\ offset = off
                /\ n_ctors = nc
                /\ mem = m
                /\ mem0 = m
                /\ boot_info = GarbageBootInfo(fill, Capacity(v))
    /\ pc = "bss"
    /\ scb = [a \in {VTOR_ADDR} |-> 0]
    /\ kernel_arg = "none"
    /\ log = <<>>
    /\ SvcAtRest
    /\ SchedAtRest
    /\ LibAtRest

(***************************************************************************)
(* _main: zero the BSS span (both entry points)                            *)
(***************************************************************************)
ZeroBss ==
    /\ pc = "bss"
    /\ LET bss_len == sym.bss_end - sym.bss_start
       IN  IF bss_len > 0
           THEN /\ mem' = memset(mem, sym.bss_start, 0, bss_len).mem
                /\ log' = Append(log, Ev("bss", Span(sym.bss_start, bss_len), 0))
           ELSE /\ mem' = mem
                /\ log' = Append(log, Ev("bss", {}, 0))
    /\ pc' = "data"
    /\ UNCHANGED <<variant, sym, offset, n_ctors, mem0, scb, boot_info,
                   kernel_arg>>
    /\ UNCHANGED svcvars
    /\ UNCHANGED schedvars
    /\ UNCHANGED libvars

(***************************************************************************)
(* _main: copy the data span                                               *)
(***************************************************************************)
\* variant: the source is never displaced
DataSrc_link == sym.data

\* &__data in arm/common, ((char*)(&__data)) + offset in cortex-m4
DataSrc ==
    IF variant = "cm4" THEN AddrOf(Add32(W(sym.data), offset)) ELSE sym.data

CopyData ==
    /\ pc = "data"
    /\ LET data_len == sym.data_end - sym.data_start
       IN  IF data_len > 0
           THEN /\ mem' = memcpy(mem, sym.data_start, DataSrc, data_len).mem
                /\ log' = Append(log, Ev("data", Span(sym.data_start, data_len), 0))
           ELSE /\ mem' = mem
                /\ log' = Append(log, Ev("data", {}, 0))
    /\ pc' = "reloc"
    /\ UNCHANGED <<variant, sym, offset, n_ctors, mem0, scb, boot_info,
                   kernel_arg>>
    /\ UNCHANGED svcvars
    /\ UNCHANGED schedvars
    /\ UNCHANGED libvars

(***************************************************************************)
(* arm/common: relocate_got                                                *)
(***************************************************************************)
\* (info) & 0xff
ELF32_R_TYPE(info) == <<info[1], 0, 0, 0>>

\* intptr_t offset = 0: the delta relocate_got applies
RelocOffset == 0

\* the loop over [__rel_dyn_start, __rel_dyn_end), reading the records from
\* the memory it is patching
RECURSIVE reloc_loop(_, _, _)
reloc_loop(m, rel, rel_end) ==
    IF rel < rel_end
    THEN LET type == ELF32_R_TYPE(ReadWord(m, rel + 4))
             ptr == AddrOf(ReadWord(m, rel))
         IN  IF type = W(R_ARM_RELATIVE)
             THEN reloc_loop(WriteWord(m, ptr, Add32(ReadWord(m, ptr), W(RelocOffset))),
                             rel + 8, rel_end)
             ELSE reloc_loop(m, rel + 8, rel_end)
    ELSE m

\* the words the loop stores to
RECURSIVE reloc_targets(_, _, _)
reloc_targets(m, rel, rel_end) ==
    IF rel < rel_end
    THEN LET type == ELF32_R_TYPE(ReadWord(m, rel + 4))
             ptr == AddrOf(ReadWord(m, rel))
         IN  IF type = W(R_ARM_RELATIVE)
             THEN Span(ptr, 4) \cup
                  reloc_targets(WriteWord(m, ptr, Add32(ReadWord(m, ptr), W(RelocOffset))),
                                rel + 8, rel_end)
             ELSE reloc_targets(m, rel + 8, rel_end)
    ELSE {}

\* memory after the two copies that precede the loop
GotCopied(m) ==
    LET got_len == sym.got_end - sym.got_start
        rel_dyn_len == sym.rel_dyn_end - sym.rel_dyn_start
        m1 == IF got_len > 0
              THEN memcpy(m, sym.got_start, sym.got_load, got_len).mem
              ELSE m
    IN  IF rel_dyn_len > 0
        THEN memcpy(m1, sym.rel_dyn_start, sym.rel_dyn_load, rel_dyn_len).mem
        ELSE m1

relocate_got(m) == reloc_loop(GotCopied(m), sym.rel_dyn_start, sym.rel_dyn_end)

RelocateGot ==
    /\ pc = "reloc"
    /\ variant = "common"
    /\ mem' = relocate_got(mem)
    /\ log' = Append(log,
                Ev("got",
                   Span(sym.got_start, sym.got_end - sym.got_start)
                     \cup Span(sym.rel_dyn_start, sym.rel_dyn_end - sym.rel_dyn_start)
                     \cup reloc_targets(GotCopied(mem), sym.rel_dyn_start,
                                        sym.rel_dyn_end),
                   RelocOffset))
    /\ pc' = "ctors"
    /\ UNCHANGED <<variant, sym, offset, n_ctors, mem0, scb, boot_info,
                   kernel_arg>>
    /\ UNCHANGED svcvars
    /\ UNCHANGED schedvars
    /\ UNCHANGED libvars

(***************************************************************************)
(* cortex-m4: relocation of the vector table                               *)
(***************************************************************************)
IvtLen == sym.ivt_end - sym.ivt_start

\* variant: the length of the table is not looked at
IvtRelocNeeded_nonzero == offset # W(0)

\* variant: the table is copied whenever it is not empty
IvtRelocNeeded_always == IvtLen > 0

\* if (ivt_len > 0 && offset != 0)
IvtRelocNeeded == IvtLen > 0 /\ offset # W(0)

\* for (i = 1; i < ivt_len / sizeof(uint32_t); i++) ivt[i] += offset
RECURSIVE ivt_fix_loop(_, _, _)
ivt_fix_loop(m, i, n) ==
    IF i < n
    THEN ivt_fix_loop(WriteWord(m, sym.ivt_start + 4 * i,
                                Add32(ReadWord(m, sym.ivt_start + 4 * i), offset)),
                      i + 1, n)
    ELSE m

IvtCopy ==
    /\ pc = "reloc"
    /\ variant = "cm4"
    /\ IvtRelocNeeded
    /\ mem' = memcpy(mem, sym.ivt_start, AddrOf(Add32(W(sym.ivt), offset)),
                     IvtLen).mem
    /\ log' = Append(log, Ev("ivt_copy", Span(sym.ivt_start, IvtLen), 0))
    /\ pc' = "ivt_fix"
    /\ UNCHANGED <<variant, sym, offset, n_ctors, mem0, scb, boot_info,
                   kernel_arg>>
    /\ UNCHANGED svcvars
    /\ UNCHANGED schedvars
    /\ UNCHANGED libvars

\* variant: the fix-up loop starts at slot 0
IvtFixup_fromzero ==
    /\ pc = "ivt_fix"
    /\ mem' = ivt_fix_loop(mem, 0, IvtLen \div 4)
    /\ log' = Append(log, Ev("ivt_fix", Span(sym.ivt_start, 4 * (IvtLen \div 4)), 0))
    /\ pc' = "vtor"
    /\ UNCHANGED <<variant, sym, offset, n_ctors, mem0, scb, boot_info,
                   kernel_arg>>
    /\ UNCHANGED svcvars
    /\ UNCHANGED schedvars
    /\ UNCHANGED libvars

IvtFixup ==
    /\ pc = "ivt_fix"
    /\ mem' = ivt_fix_loop(mem, 1, IvtLen \div 4)
    /\ log' = Append(log, Ev("ivt_fix",
                             Span(sym.ivt_start + 4, 4 * ((IvtLen \div 4) - 1)), 0))
    /\ pc' = "vtor"
    /\ UNCHANGED <<variant, sym, offset, n_ctors, mem0, scb, boot_info,
                   kernel_arg>>
    /\ UNCHANGED svcvars
    /\ UNCHANGED schedvars
    /\ UNCHANGED libvars

\* variant: the register is written right after the copy
WriteVtor_early ==
    /\ pc = "ivt_fix"
    /\ scb' = [scb EXCEPT ![VTOR_ADDR] = sym.ivt_start]
    /\ log' = Append(log, Ev("vtor", {}, sym.ivt_start))
    /\ pc' = "dsb"
    /\ UNCHANGED <<variant, sym, offset, n_ctors, mem, mem0, boot_info,
                   kernel_arg>>
    /\ UNCHANGED svcvars
    /\ UNCHANGED schedvars
    /\ UNCHANGED libvars

\* *((volatile uint32_t*)0xE000ED08) = &__ivt_start
WriteVtor ==
    /\ pc = "vtor"
    /\ scb' = [scb EXCEPT ![VTOR_ADDR] = sym.ivt_start]
    /\ log' = Append(log, Ev("vtor", {}, sym.ivt_start))
    /\ pc' = "dsb"
    /\ UNCHANGED <<variant, sym, offset, n_ctors, mem, mem0, boot_info,
                   kernel_arg>>
    /\ UNCHANGED svcvars
    /\ UNCHANGED schedvars
    /\ UNCHANGED libvars

Dsb ==
    /\ pc = "dsb"
    /\ log' = Append(log, Ev("dsb", {}, 0))
    /\ pc' = "ctors"
    /\ UNCHANGED <<variant, sym, offset, n_ctors, mem, mem0, scb, boot_info,
                   kernel_arg>>
    /\ UNCHANGED svcvars
    /\ UNCHANGED schedvars
    /\ UNCHANGED libvars

IvtSkip ==
    /\ pc = "reloc"
    /\ variant = "cm4"
    /\ ~IvtRelocNeeded
    /\ pc' = "ctors"
    /\ UNCHANGED <<variant, sym, offset, n_ctors, mem, mem0, scb, boot_info,
                   kernel_arg, log>>
    /\ UNCHANGED svcvars
    /\ UNCHANGED schedvars
    /\ UNCHANGED libvars

(***************************************************************************)
(* call_constructors, BootInfo, kernel entry                               *)
(***************************************************************************)
\* variant: the table is walked from its end
CtorEvents_descending(n) ==
    <<Ev("ctors", {}, n)>> \o [i \in 1 .. n |-> Ev("ctor", {}, n - i)]

\* one event for the call, then one per table entry in ascending order
CtorEvents(n) == <<Ev("ctors", {}, n)>> \o [i \in 1 .. n |-> Ev("ctor", {}, i - 1)]

CallConstructors ==
    /\ pc = "ctors"
    /\ log' = log \o CtorEvents(n_ctors)
    /\ pc' = IF variant = "common" THEN "bi_zero" ELSE "main"
    /\ UNCHANGED <<variant, sym, offset, n_ctors, mem, mem0, scb, boot_info,
                   kernel_arg>>
    /\ UNCHANGED svcvars
    /\ UNCHANGED schedvars
    /\ UNCHANGED libvars

\* arm/common: BootInfo boot_info; memset(&boot_info, 0, sizeof(BootInfo))
ClearBootInfo ==
    /\ pc = "bi_zero"
    /\ boot_info' = ZeroBootInfo(MMAP_LEN)
    /\ log' = Append(log, Ev("bi_zero", {}, 0))
    /\ pc' = "bi_init"
    /\ UNCHANGED <<variant, sym, offset, n_ctors, mem, mem0, scb, kernel_arg>>
    /\ UNCHANGED svcvars
    /\ UNCHANGED schedvars
    /\ UNCHANGED libvars

\* variant: init_boot_info is called a second time
InitBootInfo_again ==
    /\ pc = "bi_init"
    /\ boot_info' = init_boot_info(boot_info)
    /\ log' = Append(log, Ev("bi_init", {}, 0))
    /\ pc' = IF \E i \in 1 .. Len(log) : log[i].step = "bi_init"
             THEN "kernel" ELSE "bi_init"
    /\ UNCHANGED <<variant, sym, offset, n_ctors, mem, mem0, scb, kernel_arg>>
    /\ UNCHANGED svcvars
    /\ UNCHANGED schedvars
    /\ UNCHANGED libvars

\* arm/common: init_boot_info(&boot_info)
InitBootInfo ==
    /\ pc = "bi_init"
    /\ boot_info' = init_boot_info(boot_info)
    /\ log' = Append(log, Ev("bi_init", {}, 0))
    /\ pc' = "kernel"
    /\ UNCHANGED <<variant, sym, offset, n_ctors, mem, mem0, scb, kernel_arg>>
    /\ UNCHANGED svcvars
    /\ UNCHANGED schedvars
    /\ UNCHANGED libvars

\* cortex-m4: main() of bootstrap.c up to the kernel call
BootstrapMain ==
    /\ pc = "main"
    /\ LET r == get_mem_map(boot_info.mmap, MEM_MAP_CAPACITY)
       IN  boot_info' = [boot_info EXCEPT !.implementer = "ARM",
                                          !.variant = "Cortex-M4",
                                          !.mmap = r.mem_map,
                                          !.mmap_len = r.ret]
    /\ log' = Append(log, Ev("bi_init", {}, 0))
    /\ pc' = "kernel"
    /\ UNCHANGED <<variant, sym, offset, n_ctors, mem, mem0, scb, kernel_arg>>
    /\ UNCHANGED svcvars
    /\ UNCHANGED schedvars
    /\ UNCHANGED libvars

\* variant: the kernel is entered before init_boot_info has run
KernelInit_early ==
    /\ pc = "bi_init"
    /\ kernel_arg' = boot_info
    /\ log' = Append(log, Ev("kernel", {}, 0))
    /\ pc' = "in_kernel"
    /\ UNCHANGED <<variant, sym, offset, n_ctors, mem, mem0, scb, boot_info>>
    /\ UNCHANGED svcvars
    /\ UNCHANGED schedvars
    /\ UNCHANGED libvars

\* kernel_init(&boot_info)
KernelInit ==
    /\ pc = "kernel"
    /\ kernel_arg' = boot_info
    /\ log' = Append(log, Ev("kernel", {}, 0))
    /\ pc' = "in_kernel"
    /\ UNCHANGED <<variant, sym, offset, n_ctors, mem, mem0, scb, boot_info>>
    /\ UNCHANGED svcvars
    /\ UNCHANGED schedvars
    /\ UNCHANGED libvars

\* variant: a return from the kernel entry point is answered by calling it again
KernelReturn_retry ==
    /\ pc = "in_kernel"
    /\ ThreadRuns
    /\ pc' = "kernel"
    /\ UNCHANGED <<variant, sym, offset, n_ctors, mem, mem0, scb, boot_info,
                   kernel_arg, log>>
    /\ UNCHANGED svcvars
    /\ UNCHANGED schedvars
    /\ UNCHANGED libvars

\* kernel_init returns: control reaches unreachable()
KernelReturn ==
    /\ pc = "in_kernel"
    /\ ThreadRuns
    /\ pc' = "halt"
    /\ UNCHANGED <<variant, sym, offset, n_ctors, mem, mem0, scb, boot_info,
                   kernel_arg, log>>
    /\ UNCHANGED svcvars
    /\ UNCHANGED schedvars
    /\ UNCHANGED libvars

\* unreachable(): while (1) { } -- one iteration of the empty loop
HaltLoop ==
    /\ pc = "halt"
    /\ pc' = "halt"
    /\ UNCHANGED <<variant, sym, offset, n_ctors, mem, mem0, scb, boot_info,
                   kernel_arg, log>>
    /\ UNCHANGED svcvars
    /\ UNCHANGED schedvars
    /\ UNCHANGED libvars

Next ==
    \/ ZeroBss
    \/ CopyData
    \/ RelocateGot
    \/ IvtCopy
    \/ IvtFixup
    \/ WriteVtor
    \/ Dsb
    \/ IvtSkip
    \/ CallConstructors
    \/ ClearBootInfo
    \/ InitBootInfo
    \/ BootstrapMain
    \/ KernelInit
    \/ KernelReturn
    \/ HaltLoop

Spec == Init /\ [][Next]_vars

(***************************************************************************)
(* Vocabulary of the properties                                            *)
(***************************************************************************)
StepNames == [i \in 1 .. Len(log) |-> log[i].step]

IsPrefix(s, t) == Len(s) <= Len(t) /\ \A i \in 1 .. Len(s) : s[i] = t[i]

HasStep(st) == \E i \in 1 .. Len(log) : log[i].step = st

Times(st) == Cardinality({i \in 1 .. Len(log) : log[i].step = st})

\* every occurrence of step a precedes every occurrence of step b
Precedes(a, b) ==
    \A i, j \in 1 .. Len(log) : log[i].step = a /\ log[j].step = b => i < j

WriteSet(st) == UNION {log[i].wr : i \in {k \in 1 .. Len(log) : log[k].step = st}}

BssSpan == {a \in DOMAIN mem : sym.bss_start <= a /\ a < sym.bss_end}
DataLen == sym.data_end - sym.data_start
GotWords == (sym.got_end - sym.got_start) \div 4
IvtSlots == (sym.ivt_end - sym.ivt_start) \div 4
NumRel == (sym.rel_dyn_end - sym.rel_dyn_start) \div 8

\* where the flash-resident image actually sits relative to its link address
ImageShift == IF variant = "cm4" THEN Signed(offset) ELSE 0

AfterBss == pc # "bss"
AfterData == pc \notin {"bss", "data"}
AfterReloc == pc \notin {"bss", "data", "reloc", "ivt_fix", "vtor", "dsb"}

(***************************************************************************)
(* C1: in every execution of _main the steps are taken in the order zero   *)
(* BSS, copy data, relocate (where the build has it), run the static       *)
(* constructors, populate BootInfo, call the kernel entry point; each is   *)
(* taken at most once, none is skipped, and the kernel entry point is      *)
(* called exactly once and only after all the others.                      *)
(***************************************************************************)
ExpectedSteps ==
    <<"bss", "data">>
    \o (IF variant = "common" THEN <<"got">>
        ELSE IF sym.ivt_end > sym.ivt_start /\ offset # W(0)
             THEN <<"ivt_copy", "ivt_fix", "vtor", "dsb">>
             ELSE <<>>)
    \o <<"ctors">> \o [i \in 1 .. n_ctors |-> "ctor"]
    \o (IF variant = "common" THEN <<"bi_zero", "bi_init">> ELSE <<"bi_init">>)
    \o <<"kernel">>

C1_StrictOrder ==
    /\ IsPrefix(StepNames, ExpectedSteps)
    /\ HasStep("kernel") => StepNames = ExpectedSteps
    /\ pc = "in_kernel" => Times("kernel") = 1

C1_Witness ==
    /\ pc = "in_kernel"
    /\ n_ctors > 0
    /\ Times("kernel") = 1
    /\ Times("bss") = 1

(***************************************************************************)
(* C2: after the BSS step every byte of [__bss_start, __bss_end) is zero   *)
(* whatever memory held before; the step stores to exactly the bytes of    *)
(* the span, so to none when the span is empty, and every byte outside the *)
(* span still holds its value at reset.                                    *)
(***************************************************************************)
C2_BssZeroed ==
    /\ AfterBss => \A a \in BssSpan : mem[a] = 0
    /\ AfterBss => log[1].step = "bss" /\ log[1].wr = BssSpan
    /\ pc = "data" => \A a \in DOMAIN mem \ BssSpan : mem[a] = mem0[a]

C2_Witness ==
    /\ pc = "data"
    /\ sym.bss_end > sym.bss_start + 1
    /\ \A a \in BssSpan : mem0[a] = 255
    /\ mem0[sym.bss_start - 1] = 255 /\ mem[sym.bss_end] = 255

(***************************************************************************)
(* C3: after bring-up the RAM data span equals the flash-resident source   *)
(* (at __data, displaced by the load offset in the relocating entry point) *)
(* byte for byte over its whole length; the copy stores to exactly the     *)
(* bytes of the span, so to none when the length is zero.                  *)
(***************************************************************************)
C3_DataCopied ==
    AfterData =>
        /\ \A i \in 0 .. (DataLen - 1) :
              /\ mem[sym.data_start + i] = mem0[sym.data + ImageShift + i]
              /\ mem[sym.data_start + i] = DataByte(i)
        /\ log[2].step = "data"
        /\ log[2].wr = {a \in DOMAIN mem : sym.data_start <= a /\ a < sym.data_end}

C3_Witness ==
    /\ pc = "in_kernel"
    /\ DataLen > 1
    /\ variant = "cm4"
    /\ offset = <<252, 255, 255, 255>>
    /\ mem0[sym.data_start] # mem[sym.data_start]

(***************************************************************************)
(* C4: for a table with N entries of kind R_ARM_RELATIVE and M entries of  *)
(* other kinds and for any load delta, relocate_got adds the delta (32-bit *)
(* add) once per relative entry to the word that entry addresses and       *)
(* leaves every other word as copied from flash.                           *)
(***************************************************************************)
RelInfo(j) == ReadWord(mem0, sym.rel_dyn_load + 8 * j + 4)
RelTarget(j) == AddrOf(ReadWord(mem0, sym.rel_dyn_load + 8 * j))
IsRelative(j) == RelInfo(j)[1] = R_ARM_RELATIVE

\* relative entries addressing GOT word k
RelativeOn(k) ==
    {j \in 0 .. (NumRel - 1) : IsRelative(j) /\ RelTarget(j) = sym.got_start + 4 * k}

RECURSIVE AddTimes(_, _, _)
AddTimes(w, d, n) == IF n = 0 THEN w ELSE AddTimes(Add32(w, d), d, n - 1)

C4_AdjustedByDelta ==
    (variant = "common" /\ AfterReloc) =>
        \A k \in 0 .. (GotWords - 1) :
            ReadWord(mem, sym.got_start + 4 * k) =
                AddTimes(ReadWord(mem0, sym.got_load + 4 * k), offset,
                         Cardinality(RelativeOn(k)))

(***************************************************************************)
(* C5: with load delta 0 the RAM GOT is byte-identical to its flash copy   *)
(* and the RAM vector table is byte-identical to its flash copy.           *)
(***************************************************************************)
GotIdentical ==
    \A i \in 0 .. (4 * GotWords - 1) :
        mem[sym.got_start + i] = mem0[sym.got_load + i]

C5_NoOpAtDeltaZero ==
    (offset = W(0) /\ AfterReloc) =>
        /\ GotIdentical
        /\ \A i \in 0 .. (4 * IvtSlots - 1) :
              mem[sym.ivt_start + i] = mem0[sym.ivt + i]

(***************************************************************************)
(* C5 as amended: with load delta 0 the RAM GOT is byte-identical to its   *)
(* flash copy, and the RAM vector-table region is not written at all: it   *)
(* keeps the bytes it held at reset, and the vector-table-offset register  *)
(* keeps its reset value.                                                  *)
(***************************************************************************)
C5_DeltaZero ==
    (offset = W(0) /\ AfterReloc) =>
        /\ GotIdentical
        /\ \A i \in 0 .. (4 * IvtSlots - 1) :
              mem[sym.ivt_start + i] = mem0[sym.ivt_start + i]
        /\ \A i \in 1 .. Len(log) :
              log[i].wr \cap Span(sym.ivt_start, 4 * IvtSlots) = {}
        /\ scb[VTOR_ADDR] = 0

C5_Witness ==
    /\ offset = W(0)
    /\ pc = "in_kernel"
    /\ variant = "cm4"
    /\ IvtSlots > 1
    /\ \E i \in 0 .. (4 * IvtSlots - 1) : mem[sym.ivt_start + i] # mem0[sym.ivt + i]

(***************************************************************************)
(* C6: after _main(offset) with offset # 0 and a non-empty vector table,   *)
(* RAM slot 0 equals flash slot 0 and every slot i >= 1 equals flash slot  *)
(* i plus offset modulo 2^32.                                              *)
(***************************************************************************)
FlashSlot(i) == ReadWord(mem0, sym.ivt + ImageShift + 4 * i)
RamSlot(i) == ReadWord(mem, sym.ivt_start + 4 * i)

C6_IvtSlots ==
    (variant = "cm4" /\ offset # W(0) /\ IvtSlots > 0 /\ AfterReloc) =>
        /\ RamSlot(0) = FlashSlot(0)
        /\ \A i \in 1 .. (IvtSlots - 1) : RamSlot(i) = Add32(FlashSlot(i), offset)

C6_Witness ==
    /\ variant = "cm4"
    /\ offset = W(4)
    /\ IvtSlots > 2
    /\ pc = "in_kernel"
    /\ FlashSlot(1) = <<2, 0, 0, 0>>
    /\ RamSlot(1) = <<6, 0, 0, 0>>
    /\ RamSlot(0) = <<254, 255, 255, 255>>

(***************************************************************************)
(* C7: with a non-zero load delta the vector-table-offset register is      *)
(* written, with the base address of the RAM vector table, only after the  *)
(* table copy and the slot fix-ups; the data synchronization barrier       *)
(* follows the write; both precede every static constructor and the        *)
(* kernel entry point.                                                     *)
(***************************************************************************)
C7_VtorOrder ==
    (variant = "cm4" /\ offset # W(0)) =>
        /\ Precedes("ivt_copy", "vtor") /\ Precedes("ivt_fix", "vtor")
        /\ HasStep("vtor") => HasStep("ivt_copy") /\ HasStep("ivt_fix")
        /\ Precedes("vtor", "dsb")
        /\ HasStep("dsb") => HasStep("vtor")
        /\ \A st \in {"ctors", "ctor", "bi_init", "kernel"} :
              Precedes("vtor", st) /\ Precedes("dsb", st)
        /\ \A i \in 1 .. Len(log) :
              log[i].step = "vtor" => log[i].arg = sym.ivt_start
        /\ scb[VTOR_ADDR] = IF HasStep("vtor") THEN sym.ivt_start ELSE 0
        /\ (IvtSlots > 0 /\ HasStep("ctors")) => HasStep("dsb")
        /\ HasStep("vtor") =>
              \A i \in 1 .. (IvtSlots - 1) : RamSlot(i) = Add32(FlashSlot(i), offset)

C7_Witness ==
    /\ variant = "cm4"
    /\ offset # W(0)
    /\ IvtSlots > 1
    /\ pc = "in_kernel"
    /\ scb[VTOR_ADDR] = sym.ivt_start
    /\ HasStep("dsb")

(***************************************************************************)
(* C8: the BootInfo handed to the kernel entry point has mmap_len <= 8 and *)
(* magic = BOOT_INFO_MAGIC.                                                *)
(***************************************************************************)
C8_BootInfoValid ==
    pc = "in_kernel" =>
        /\ kernel_arg.mmap_len <= MMAP_LEN
        /\ kernel_arg.magic = BOOT_INFO_MAGIC

(***************************************************************************)
(* Trap dispatcher.  The cortex-m4 tree dispatches through the generated   *)
(* switch (syscall.c with syscall.map.generated.h), the arm/common tree    *)
(* hands the number to handle_syscall.                                     *)
(***************************************************************************)
\* variant: the two registrations exchange their numbers
SyscallTable_swapped ==
    [n \in {0, 1} |-> IF n = 1 THEN [name |-> "reset", argc |-> 0]
                               ELSE [name |-> "among", argc |-> 1]]

\* variant: a third registration, of number 2
SyscallTable_extra ==
    [n \in {0, 1, 2} |-> IF n = 0 THEN [name |-> "reset", argc |-> 0]
                                   ELSE [name |-> "among", argc |-> 1]]

\* IMPLEMENT_SYSCALLS: number -> (handler, argc)
SyscallTable ==
    [n \in {0, 1} |-> IF n = 0 THEN [name |-> "reset", argc |-> 0]
                               ELSE [name |-> "among", argc |-> 1]]

\* variant: the byte next below the return address
DecodeSvc_prev(frame) == code[frame[6] - 1]

\* svc_number = ((char *)svc_args[6])[-2]; char is unsigned on this target
DecodeSvc(frame) == code[frame[6] - 2]

\* the values a call returns are kept as a set: empty for a void function
\* what a handler, given the pointer to the frame, may store through it
FrameArgs == {0, 7}
RetVals == {0, 5, 77}
HandlerWrites ==
    {[slot |-> -1, val |-> 0]} \cup
    {[slot |-> k, val |-> v] : k \in {0, 1}, v \in {5, 77}}

ApplyWrite(frame, w) ==
    IF w.slot = -1 THEN frame ELSE [frame EXCEPT ![w.slot] = w.val]

\* exception entry: the hardware stacks r0-r3, r12, lr, the return address
\* and xPSR, and _syscall_hndlr decodes the number
SvcEntry ==
    /\ pc = "in_kernel"
    /\ ThreadRuns
    /\ \E site \in 1 .. Len(SvcImms), r0 \in FrameArgs, r1 \in FrameArgs :
          LET frame == [i \in 0 .. 7 |->
                           CASE i = 0 -> r0
                             [] i = 1 -> r1
                             [] i = 6 -> 2 * site
                             [] OTHER -> 16 + i]
          IN  /\ svc_args' = frame
              /\ frame_in' = frame
              /\ svc_number' = DecodeSvc(frame)
    /\ calls' = <<>>
    /\ svc_state' = "Dispatching"
    /\ UNCHANGED code
    /\ UNCHANGED bootvars
    /\ UNCHANGED schedvars
    /\ UNCHANGED libvars

\* variant: the handler is invoked and the number is dispatched on again
SwitchDispatch_again ==
    /\ variant = "cm4"
    /\ svc_state = "Dispatching"
    /\ IF svc_number \in DOMAIN SyscallTable
       THEN \E w \in HandlerWrites :
              /\ calls' = Append(calls,
                    [handler |-> SyscallTable[svc_number].name,
                     a1 |-> SyscallTable[svc_number].argc,
                     frame |-> svc_args, write |-> w, ret |-> {}])
              /\ svc_args' = ApplyWrite(svc_args, w)
       ELSE UNCHANGED <<calls, svc_args>>
    /\ svc_state' = IF Len(calls) < 1 /\ svc_number \in DOMAIN SyscallTable
                    THEN "Dispatching" ELSE "Idle"
    /\ UNCHANGED <<code, frame_in, svc_number>>
    /\ UNCHANGED bootvars
    /\ UNCHANGED schedvars
    /\ UNCHANGED libvars

\* cortex-m4/syscall.c: switch (svc_number) { IMPLEMENT_SYSCALLS() }
SwitchDispatch ==
    /\ variant = "cm4"
    /\ svc_state = "Dispatching"
    /\ IF svc_number \in DOMAIN SyscallTable
       THEN \E w \in HandlerWrites :
              /\ calls' = Append(calls,
                    [handler |-> SyscallTable[svc_number].name,
                     a1 |-> SyscallTable[svc_number].argc,
                     frame |-> svc_args, write |-> w, ret |-> {}])
              /\ svc_args' = ApplyWrite(svc_args, w)
       ELSE UNCHANGED <<calls, svc_args>>
    /\ svc_state' = "Idle"
    /\ UNCHANGED <<code, frame_in, svc_number>>
    /\ UNCHANGED bootvars
    /\ UNCHANGED schedvars
    /\ UNCHANGED libvars

\* arm/common/syscall.c: ret = handle_syscall(svc_number, svc_args);
\* svc_args[0] = ret
HandleDispatch ==
    /\ variant = "common"
    /\ svc_state = "Dispatching"
    /\ \E w \in HandlerWrites, ret \in RetVals :
          /\ calls' = Append(calls,
                [handler |-> "handle_syscall", a1 |-> svc_number,
                 frame |-> svc_args, write |-> w, ret |-> {ret}])
          /\ svc_args' = [ApplyWrite(svc_args, w) EXCEPT ![0] = ret]
    /\ svc_state' = "Idle"
    /\ UNCHANGED <<code, frame_in, svc_number>>
    /\ UNCHANGED bootvars
    /\ UNCHANGED schedvars
    /\ UNCHANGED libvars

\* reschedule(), called by the kernel in thread mode or by a handler while a
\* dispatch is in flight
Reschedule ==
    /\ pc = "in_kernel"
    /\ pendsv_state = "Idle"
    /\ svc_state = "Dispatching" \/ ~icsr.pendsv
    /\ requests < MaxRequests
    /\ switches < MaxSwitches
    /\ LET r == reschedule(icsr)
       IN  /\ icsr' = r.icsr
           /\ last_resched' = r.effects
    /\ requests' = requests + 1
    /\ bursts' = IF icsr.pendsv THEN bursts ELSE bursts + 1
    /\ UNCHANGED <<pendsv_state, switches, answered>>
    /\ UNCHANGED bootvars
    /\ UNCHANGED svcvars
    /\ UNCHANGED libvars

\* exception entry of PendSV: taken once no handler of the same or a higher
\* priority is active; entry clears the pending flag
PendSvTake ==
    /\ pc \in {"in_kernel", "halt"}
    /\ icsr.pendsv
    /\ pendsv_state = "Idle"
    /\ svc_state = "Dispatching" => ExcPriority.PendSV < ExcPriority.SVCall
    /\ icsr' = [icsr EXCEPT !.pendsv = FALSE]
    /\ pendsv_state' = "Switching"
    /\ switches' = switches + 1
    /\ answered' = requests
    /\ requests' = 0
    /\ UNCHANGED <<bursts, last_resched>>
    /\ UNCHANGED bootvars
    /\ UNCHANGED svcvars
    /\ UNCHANGED libvars

\* the switch handler returns
PendSvReturn ==
    /\ pendsv_state = "Switching"
    /\ pendsv_state' = "Idle"
    /\ UNCHANGED <<icsr, requests, bursts, switches, answered, last_resched>>
    /\ UNCHANGED bootvars
    /\ UNCHANGED svcvars
    /\ UNCHANGED libvars

(***************************************************************************)
(* The dispatcher runs once the kernel has been entered: the state a       *)
(* completed bring-up leaves behind (empty spans, no constructors).        *)
(***************************************************************************)
Booted(v) ==
    /\ variant = v
    /\ pc = "in_kernel"
    /\ sym = Layout(0, 0, 0, 0, 0)
    /\ offset = W(0)
    /\ n_ctors = 0
    /\ mem = ResetMem(sym, 0, "ff", 0, W(0), <<>>, W(0))
    /\ mem0 = mem
    /\ scb = [a \in {VTOR_ADDR} |-> 0]
    /\ boot_info =
          IF v = "common" THEN init_boot_info(ZeroBootInfo(MMAP_LEN))
          ELSE LET g == GarbageBootInfo("ff", MEM_MAP_CAPACITY)
                   r == get_mem_map(g.mmap, MEM_MAP_CAPACITY)
               IN  [g EXCEPT !.implementer = "ARM", !.variant = "Cortex-M4",
                             !.mmap = r.mem_map, !.mmap_len = r.ret]
    /\ kernel_arg = boot_info
    /\ log = [i \in 1 .. Len(ExpectedSteps) |-> Ev(ExpectedSteps[i], {}, 0)]

\* other exceptions may be pending when the kernel starts to run
SchedBooted ==
    /\ icsr \in [nmipend : BOOLEAN, pendsv : {FALSE}, pendst : BOOLEAN]
    /\ pendsv_state = "Idle"
    /\ requests = 0
    /\ bursts = 0
    /\ switches = 0
    /\ answered = 0
    /\ last_resched = <<>>

InitSvc ==
    /\ \E v \in Variants : Booted(v)
    /\ SvcAtRest
    /\ SchedBooted
    /\ LibAtRest

NextSvc ==
    \/ SvcEntry
    \/ SwitchDispatch
    \/ HandleDispatch
    \/ Reschedule
    \/ PendSvTake
    \/ PendSvReturn

SpecSvc == InitSvc /\ [][NextSvc]_vars

\* the hardware takes an eligible pending exception, and the handlers the
\* dispatcher invokes return
SpecSvcFair ==
    /\ SpecSvc
    /\ WF_vars(PendSvTake)
    /\ WF_vars(PendSvReturn)
    /\ WF_vars(SwitchDispatch)
    /\ WF_vars(HandleDispatch)

\* one reset followed through bring-up, the running kernel and the halt
\* loop; the images are the smallest ones
InitLife ==
    /\ Init
    /\ sym.bss_end = sym.bss_start
    /\ sym.data_end = sym.data_start
    /\ sym.got_end = sym.got_start
    /\ sym.ivt_end - sym.ivt_start <= 4
    /\ n_ctors = 0

NextLife == Next \/ NextSvc

SpecLife == InitLife /\ [][NextLife]_vars

(***************************************************************************)
(* The library functions and the board's get_mem_map, each called once on  *)
(* arguments drawn from the bounded sets.  memcpy is declared __restrict:  *)
(* its callers hand it ranges that do not overlap.                         *)
(***************************************************************************)
MemsetValues == {0, 171, 257}

LibCalls ==
    {LibCall("memmove", d, sr, n, 0, 0) :
        d \in LibPtrs, sr \in LibPtrs, n \in 0 .. MaxLen}
    \cup {c \in {LibCall("memcpy", d, sr, n, 0, 0) :
                    d \in LibPtrs, sr \in LibPtrs, n \in 0 .. MaxLen} :
              c.dst + c.len <= c.src \/ c.src + c.len <= c.dst}
    \cup {LibCall("memset", d, 0, n, v, 0) :
              d \in LibPtrs, n \in 0 .. MaxLen, v \in MemsetValues}
    \cup {LibCall("get_mem_map", 0, 0, 0, 0, k) : k \in 0 .. MaxMapSize}

InitLib ==
    /\ \E v \in Variants : Booted(v)
    /\ SvcAtRest
    /\ SchedAtRest
    /\ lib_pc = "call"
    /\ lib_call \in LibCalls
    /\ lib_mem = LibMemory
    /\ lib_mem0 = LibMemory
    /\ lib_map = LibSlots
    /\ lib_ret = {}

Memcpy ==
    /\ lib_pc = "call"
    /\ lib_call.fn = "memcpy"
    /\ LET r == memcpy(lib_mem, lib_call.dst, lib_call.src, lib_call.len)
       IN  /\ lib_mem' = r.mem
           /\ lib_ret' = {r.ret}
    /\ lib_pc' = "done"
    /\ UNCHANGED <<lib_call, lib_mem0, lib_map>>
    /\ UNCHANGED <<bootvars, svcvars, schedvars>>

Memset ==
    /\ lib_pc = "call"
    /\ lib_call.fn = "memset"
    /\ LET r == memset(lib_mem, lib_call.dst, lib_call.c, lib_call.len)
       IN  /\ lib_mem' = r.mem
           /\ lib_ret' = {r.ret}
    /\ lib_pc' = "done"
    /\ UNCHANGED <<lib_call, lib_mem0, lib_map>>
    /\ UNCHANGED <<bootvars, svcvars, schedvars>>

Memmove ==
    /\ lib_pc = "call"
    /\ lib_call.fn = "memmove"
    /\ LET r == memmove(lib_mem, lib_call.dst, lib_call.src, lib_call.len)
       IN  /\ lib_mem' = r.mem
           /\ lib_ret' = {r.ret}
    /\ lib_pc' = "done"
    /\ UNCHANGED <<lib_call, lib_mem0, lib_map>>
    /\ UNCHANGED <<bootvars, svcvars, schedvars>>

\* get_mem_map stores entries 0, 1 and 2; a store past the caller's buffer
\* is undefined: it lands in the storage that follows, or nowhere
GetMemMap ==
    /\ lib_pc = "call"
    /\ lib_call.fn = "get_mem_map"
    /\ LET r == get_mem_map(lib_map, lib_call.max_size)
       IN  /\ \E lands \in BOOLEAN :
                 lib_map' = [i \in MapSlots |->
                                IF i < lib_call.max_size \/ lands
                                THEN r.mem_map[i] ELSE lib_map[i]]
           /\ lib_ret' = {r.ret}
    /\ lib_pc' = "done"
    /\ UNCHANGED <<lib_call, lib_mem, lib_mem0>>
    /\ UNCHANGED <<bootvars, svcvars, schedvars>>

NextLib ==
    \/ Memcpy
    \/ Memset
    \/ Memmove
    \/ GetMemMap

SpecLib == InitLib /\ [][NextLib]_vars

Dispatched == svc_state = "Idle" /\ frame_in # NoFrame

(***************************************************************************)
(* C9: for every syscall number present in the table and every frame, one  *)
(* dispatch invokes the handler registered for the number exactly once     *)
(* with the registered argument count and the pointer to the frame, and    *)
(* afterwards frame slot 0 holds the handler's return value.               *)
(***************************************************************************)
Registered(n) == IF n = 0 THEN <<"reset", 0>> ELSE <<"among", 1>>

InvokedRegistered ==
    /\ Len(calls) = 1
    /\ <<calls[1].handler, calls[1].a1>> = Registered(svc_number)
    /\ calls[1].frame = frame_in

C9_ReturnInSlotZero ==
    (Dispatched /\ svc_number \in {0, 1} /\ variant = "cm4") =>
        /\ InvokedRegistered
        /\ calls[1].ret = {svc_args[0]}

(***************************************************************************)
(* C9 as amended: the switch dispatcher invokes the registered handler     *)
(* exactly once with the registered argument count and the frame pointer;  *)
(* its handlers return no value and the dispatcher itself stores nothing   *)
(* into the frame, so every slot, slot 0 included, holds what the handler  *)
(* left there.  The handle_syscall dispatcher invokes handle_syscall       *)
(* exactly once with the decoded number and the frame pointer and stores   *)
(* its return value into slot 0, leaving the other slots as the callee     *)
(* left them.                                                              *)
(***************************************************************************)
C9_Dispatch ==
    /\ (Dispatched /\ svc_number \in {0, 1} /\ variant = "cm4") =>
          /\ InvokedRegistered
          /\ calls[1].ret = {}
          /\ svc_args = ApplyWrite(frame_in, calls[1].write)
    /\ (Dispatched /\ variant = "common") =>
          /\ Len(calls) = 1
          /\ calls[1].handler = "handle_syscall"
          /\ calls[1].a1 = svc_number
          /\ calls[1].frame = frame_in
          /\ calls[1].ret = {svc_args[0]}
          /\ \A i \in 1 .. 7 : svc_args[i] = ApplyWrite(frame_in, calls[1].write)[i]

C9_Witness ==
    /\ Dispatched
    /\ variant = "cm4"
    /\ svc_number = 1
    /\ Len(calls) = 1
    /\ calls[1].handler = "among"
    /\ calls[1].write.slot = -1
    /\ svc_args[0] = 7

(***************************************************************************)
(* C10: the syscall number is the byte immediately preceding the return    *)
(* address of the frame (at return_address - 1, the return address being   *)
(* frame slot 6), read with no range validation.                           *)
(***************************************************************************)
C10_BytePreceding ==
    frame_in # NoFrame => svc_number = code[frame_in[6] - 1]

(***************************************************************************)
(* C10 as amended: the syscall number is the byte two below the return     *)
(* address of the frame (at return_address - 2, the immediate of the       *)
(* 16-bit SVC instruction that trapped), read with no range validation:    *)
(* any byte value, in the table or not, is taken as the number.            *)
(***************************************************************************)
C10_ByteTwoBelow ==
    frame_in # NoFrame =>
        /\ svc_number = code[frame_in[6] - 2]
        /\ svc_number = SvcImms[frame_in[6] \div 2]

C10_Witness ==
    /\ svc_state = "Dispatching"
    /\ frame_in[6] = 8
    /\ svc_number = 200
    /\ code[frame_in[6] - 1] = 223

(***************************************************************************)
(* C11: if the kernel entry point returns, _main enters the halt loop and  *)
(* stays in it: it never leaves the loop, repeats no bring-up step, does   *)
(* not call the kernel entry point again and writes nothing further.       *)
(***************************************************************************)
C11_HaltForever ==
    [][/\ (pc = "in_kernel" /\ pc' # pc) => pc' = "halt"
       /\ pc = "halt" => /\ pc' = "halt"
                         /\ log' = log
                         /\ mem' = mem
                         /\ scb' = scb
                         /\ boot_info' = boot_info
                         /\ kernel_arg' = kernel_arg]_vars

C11_Witness ==
    /\ pc = "halt"
    /\ Times("kernel") = 1
    /\ StepNames = ExpectedSteps

(***************************************************************************)
(* C12: call_constructors invokes every entry of the constructor table     *)
(* exactly once, in ascending table order, all of them before BootInfo is  *)
(* populated and before the kernel entry point is called; an empty table   *)
(* invokes nothing.                                                        *)
(***************************************************************************)
\* table indices of the constructors invoked so far, in order of invocation
Invoked ==
    LET idx == {i \in 1 .. Len(log) : log[i].step = "ctor"}
        nth(k) == CHOOSE i \in idx : Cardinality({j \in idx : j < i}) = k - 1
    IN  [k \in 1 .. Cardinality(idx) |-> log[nth(k)].arg]

CtorsDone == pc \notin {"bss", "data", "reloc", "ivt_fix", "vtor", "dsb", "ctors"}

C12_Constructors ==
    /\ CtorsDone => Invoked = [k \in 1 .. n_ctors |-> k - 1]
    /\ ~CtorsDone => Invoked = <<>>
    /\ \A st \in {"bi_zero", "bi_init", "kernel"} : Precedes("ctor", st)

C12_Witness ==
    /\ pc = "in_kernel"
    /\ n_ctors > 1
    /\ Invoked[1] = 0
    /\ Invoked[2] = 1

(***************************************************************************)
(* C13: a full memory barrier is issued after BootInfo has been populated  *)
(* and before the kernel entry point is called.                            *)
(***************************************************************************)
C13_BarrierBeforeKernel ==
    HasStep("kernel") =>
        \E i, j, k \in 1 .. Len(log) :
            /\ i < j /\ j < k
            /\ log[i].step = "bi_init"
            /\ log[j].step \in {"dsb", "dmb"}
            /\ log[k].step = "kernel"

(***************************************************************************)
(* C20: when the load delta is zero or the vector-table region is empty,   *)
(* bring-up stores to no byte of the RAM vector-table region, does not     *)
(* write the vector-table-offset register and issues no barrier for it;    *)
(* the region and the register keep their values at reset.                 *)
(***************************************************************************)
C20_NoIvtRelocation ==
    (offset = W(0) \/ sym.ivt_end = sym.ivt_start) =>
        /\ ~HasStep("ivt_copy") /\ ~HasStep("ivt_fix")
        /\ ~HasStep("vtor") /\ ~HasStep("dsb")
        /\ scb[VTOR_ADDR] = 0
        /\ \A a \in sym.ivt_start .. (sym.ivt_end - 1) :
              /\ mem[a] = mem0[a]
              /\ \A i \in 1 .. Len(log) : a \notin log[i].wr

C20_Witness ==
    /\ variant = "cm4"
    /\ offset = W(0)
    /\ IvtSlots > 0
    /\ pc = "in_kernel"
    /\ mem[sym.ivt_start] = mem0[sym.ivt_start]

(***************************************************************************)
(* C14: BootInfo is populated once per reset, before the kernel entry      *)
(* call (arm/common: one zero-fill, then one init_boot_info call), and     *)
(* from the kernel entry call on no step -- trap dispatch, reschedule,     *)
(* switch, halt loop -- writes any of its fields.                          *)
(***************************************************************************)
C14_SingleWriter ==
    /\ [](/\ Times("bi_zero") <= 1
          /\ Times("bi_init") <= 1
          /\ Precedes("bi_zero", "bi_init")
          /\ Precedes("bi_init", "kernel")
          /\ HasStep("kernel") =>
                /\ Times("bi_init") = 1
                /\ variant = "common" => Times("bi_zero") = 1
                /\ boot_info = kernel_arg)
    /\ [][HasStep("kernel") => boot_info' = boot_info]_vars

C14_Witness ==
    /\ variant = "common"
    /\ pc = "halt"
    /\ Dispatched
    /\ switches > 0
    /\ last_resched # <<>>
    /\ boot_info = init_boot_info(ZeroBootInfo(MMAP_LEN))

(***************************************************************************)
(* C15: reschedule() called again before the pending switch is taken finds *)
(* the PendSV flag set and leaves it set, and the calls made between two   *)
(* switches are answered by exactly one switch.                            *)
(***************************************************************************)
C15_OneSwitch ==
    /\ [](/\ bursts = switches + (IF icsr.pendsv THEN 1 ELSE 0)
          /\ requests > 0 => icsr.pendsv)
    /\ [][(requests > 0 /\ requests' = requests + 1) =>
              /\ icsr.pendsv
              /\ icsr'.pendsv
              /\ bursts' = bursts
              /\ switches' = switches]_vars

C15_Witness ==
    /\ answered = 2
    /\ switches = 1
    /\ bursts = 1
    /\ requests = 0
    /\ ~icsr.pendsv
    /\ pendsv_state = "Idle"

(***************************************************************************)
(* C16: a call of reschedule() changes the PendSV pending flag only, which *)
(* is set afterwards: every other flag of ICSR keeps the value it had,     *)
(* whatever it was, and the ISB and the DSB are both issued after the      *)
(* store that sets the flag.                                               *)
(***************************************************************************)
OpsOf(op) == {i \in 1 .. Len(last_resched) : last_resched[i].op = op}

C16_OnlyPendSv ==
    /\ [][requests' = requests + 1 =>
              /\ icsr' = [icsr EXCEPT !.pendsv = TRUE]
              /\ pendsv_state' = pendsv_state
              /\ switches' = switches
              /\ UNCHANGED bootvars
              /\ UNCHANGED svcvars]_vars
    /\ [](requests > 0 =>
              /\ Cardinality(OpsOf("str")) = 1
              /\ OpsOf("isb") # {}
              /\ OpsOf("dsb") # {}
              /\ \A i \in OpsOf("str") :
                    /\ SCB_ICSR_PENDSVSET \in last_resched[i].val
                    /\ \A j \in OpsOf("isb") \cup OpsOf("dsb") : i < j)

C16_Witness ==
    /\ requests = 1
    /\ icsr = [nmipend |-> FALSE, pendsv |-> TRUE, pendst |-> TRUE]
    /\ last_resched[1].val = {26, SCB_ICSR_PENDSVSET}
    /\ switches = 0

(***************************************************************************)
(* C17: a switch requested while a supervisor-call dispatch is in flight   *)
(* does not start before the dispatch has returned to Idle, stays pending  *)
(* until it starts, and does start.                                        *)
(***************************************************************************)
C17_Deferred ==
    /\ [](pendsv_state = "Switching" => svc_state = "Idle")
    /\ [][/\ (icsr.pendsv /\ svc_state = "Dispatching") =>
                (icsr'.pendsv /\ pendsv_state' = "Idle")
          /\ (icsr.pendsv /\ ~icsr'.pendsv) =>
                (pendsv_state = "Idle" /\ pendsv_state' = "Switching")]_vars
    /\ (icsr.pendsv /\ svc_state = "Dispatching") ~> (pendsv_state = "Switching")

C17_Witness ==
    /\ pendsv_state = "Switching"
    /\ answered = 2
    /\ svc_state = "Idle"
    /\ frame_in # NoFrame

(***************************************************************************)
(* C18: a supervisor-call trap takes the dispatcher from Idle to           *)
(* Dispatching and back to Idle: the dispatch in flight ends, invokes no   *)
(* handler a second time, and is the only one in flight.                   *)
(***************************************************************************)
C18_IdleDispatchingIdle ==
    /\ [](/\ svc_state \in {"Idle", "Dispatching"}
          /\ Len(calls) <= 1
          /\ svc_state = "Dispatching" => calls = <<>>)
    /\ [][/\ svc_state' = "Dispatching" =>
                (svc_state = "Idle" \/ UNCHANGED svcvars)
          /\ (svc_state = "Dispatching" /\ svc_state' = "Idle") =>
                (frame_in' = frame_in /\ svc_number' = svc_number)]_vars
    /\ (svc_state = "Dispatching") ~> (svc_state = "Idle")

C18_Witness ==
    /\ Dispatched
    /\ Len(calls) = 1
    /\ requests = 0
    /\ switches = 0

(***************************************************************************)
(* C19: in the switch-based dispatcher a decoded number other than 0 and 1 *)
(* invokes no handler, leaves the 8 frame slots as stacked and returns to  *)
(* Idle.                                                                   *)
(***************************************************************************)
C19_UnknownNumber ==
    /\ (variant = "cm4" /\ Dispatched /\ svc_number \notin {0, 1}) =>
          /\ calls = <<>>
          /\ svc_args = frame_in
    /\ \A i \in 1 .. Len(calls) : calls[i].handler \in {"reset", "among", "handle_syscall"}

C19_Witness ==
    /\ variant = "cm4"
    /\ Dispatched
    /\ svc_number = 200
    /\ calls = <<>>
    /\ svc_args = frame_in

(***************************************************************************)
(* C21: get_mem_map(mem_map, max_size) stores to at most the first         *)
(* max_size entries of mem_map and returns a count that is at most         *)
(* max_size, for every max_size.                                           *)
(***************************************************************************)
C21_RespectsCapacity ==
    (lib_pc = "done" /\ lib_call.fn = "get_mem_map") =>
        /\ \A n \in lib_ret : n <= lib_call.max_size
        /\ \A i \in MapSlots : i >= lib_call.max_size => lib_map[i] = LibSlots[i]

(***************************************************************************)
(* C22: the regions handed to the kernel are pairwise disjoint: for any    *)
(* two entries i # j below the region count, [addr_i, addr_i + length_i)   *)
(* and [addr_j, addr_j + length_j) do not meet.                            *)
(***************************************************************************)
RegionsMeet(a, b) ==
    /\ a.addr < b.addr + b.length
    /\ b.addr < a.addr + a.length

C22_RegionsDisjoint ==
    pc = "in_kernel" =>
        \A i, j \in 0 .. (kernel_arg.mmap_len - 1) :
            i # j => ~RegionsMeet(kernel_arg.mmap[i], kernel_arg.mmap[j])

(***************************************************************************)
(* C23: after memmove(dst, src, len) the bytes dst[0..len) hold what       *)
(* src[0..len) held before the call, however the two ranges lie to each    *)
(* other, and no byte outside dst[0..len) has changed.                     *)
(***************************************************************************)
C23_MemmoveCopies ==
    (lib_pc = "done" /\ lib_call.fn = "memmove") =>
        /\ \A i \in 0 .. (lib_call.len - 1) :
              lib_mem[lib_call.dst + i] = lib_mem0[lib_call.src + i]
        /\ \A a \in LibAddrs \ Span(lib_call.dst, lib_call.len) :
              lib_mem[a] = lib_mem0[a]

C23_Witness ==
    /\ lib_pc = "done"
    /\ lib_call.fn = "memmove"
    /\ lib_call.len = MaxLen
    /\ lib_call.src < lib_call.dst
    /\ lib_call.dst < lib_call.src + lib_call.len
    /\ lib_mem[lib_call.dst + 1] = lib_mem0[lib_call.src + 1]
    /\ lib_mem # lib_mem0

(***************************************************************************)
(* C24: memcpy, memset and memmove return the destination pointer they     *)
(* were passed, for every length.                                          *)
(***************************************************************************)
C24_ReturnsDst ==
    (lib_pc = "done" /\ lib_call.fn \in {"memcpy", "memset", "memmove"}) =>
        lib_ret = {lib_call.dst}

====
